---- MODULE Spec2Model ----
(***************************************************************************)
(* The storage layer of the links API: JsonStorage (src/storage.py) and    *)
(* PgStorage (src/storage_pg.py), the two backends behind get_storage().   *)
(*                                                                         *)
(* Texts (url, title, notes, q) are sequences of one-character strings so  *)
(* that substring search, lower-casing and ILIKE patterns are computed.    *)
(* An Optional value is None or Some(v).                                   *)
(***************************************************************************)
EXTENDS Integers, Sequences, FiniteSets, TLC

\* ---------------------------------------------------------------- bounds
\* Number of ids uuid4 / gen_random_uuid may hand out in one behaviour.
MaxUuid == 2
\* Last reading of the wall clock, in ticks.
MaxClock == 1
\* Ticks per second: the resolution of the clock, scaled down from 10^6.
TicksPerSec == 2
\* Largest limit and offset a list_links call is given.
MaxLimit == 2
MaxOffset == 2

\* ---------------------------------------------------------------- values
None == <<>>

Some(v) == <<v>>

Ids == 1..MaxUuid

\* Python: `if v:` on an Optional[str]: None and "" are both false.
Truthy(o) == o # None /\ o[1] # <<>>

\* Python: `v or ""` on an Optional[str].
OrEmpty(o) == IF Truthy(o) THEN o[1] ELSE <<>>

Min(a, b) == IF a <= b THEN a ELSE b

Range(s) == {s[k] : k \in 1..Len(s)}

\* str.lower() on the characters of the alphabet in use.
LowerChar(c) == CASE c = "A" -> "a" [] c = "B" -> "b" [] OTHER -> c

Lower(s) == [k \in 1..Len(s) |-> LowerChar(s[k])]

\* Python: `needle in hay` on strings.
IsSubstr(needle, hay) ==
    \E k \in 0..(Len(hay) - Len(needle)) :
        \A j \in 1..Len(needle) : hay[k + j] = needle[j]

\* PostgreSQL `text ILIKE pattern`: % matches any run of characters, _ any one
\* character, a backslash makes the next pattern character literal; other
\* characters match case-insensitively.
RECURSIVE ILike(_, _)
ILike(s, p) ==
    IF p = <<>> THEN s = <<>>
    ELSE IF p[1] = "%" THEN
        \E k \in 0..Len(s) : ILike(SubSeq(s, k + 1, Len(s)), Tail(p))
    ELSE IF s = <<>> THEN FALSE
    ELSE IF p[1] = "_" THEN ILike(Tail(s), Tail(p))
    ELSE IF p[1] = "\\" /\ Len(p) >= 2 THEN
        LowerChar(s[1]) = LowerChar(p[2]) /\ ILike(Tail(s), Tail(Tail(p)))
    ELSE LowerChar(s[1]) = LowerChar(p[1]) /\ ILike(Tail(s), Tail(p))

\* ------------------------------------------------------------ timestamps
\* A datetime is a clock reading in ticks.  str(datetime), which json.dump's
\* default=str applies, prints the seconds, then the fraction only when it is
\* not zero, then the UTC offset; characters are their ASCII codes
\* ('+' = 43, '.' = 46, '0' = 48).
StrDT(t) ==
    <<48 + (t \div TicksPerSec)>>
        \o (IF t % TicksPerSec = 0 THEN <<>> ELSE <<46, 48 + (t % TicksPerSec)>>)
        \o <<43>>

\* Python's < on strings: lexicographic by code point.
RECURSIVE StrLess(_, _)
StrLess(a, b) ==
    IF b = <<>> THEN FALSE
    ELSE IF a = <<>> THEN TRUE
    ELSE IF a[1] # b[1] THEN a[1] < b[1]
    ELSE StrLess(Tail(a), Tail(b))

\* ---------------------------------------------------------------- inputs
\* A character PostgreSQL text cannot hold (0x00).
Nul == "NUL"

\* Drafts as main.py hands them over: LinkIn.model_dump(mode="json").
Drafts ==
    { [url |-> <<"a", "b">>, title |-> Some(<<"A", "c">>), tags |-> << <<"x">> >>,
       notes |-> None],
      [url |-> <<"c">>, title |-> None, tags |-> << <<"X">> >>,
       notes |-> Some(<<Nul>>)] }

\* Patches: LinkUpdate.model_dump(exclude_none=True); an excluded key and a
\* None value are both None here (patch.get(k) is None for either).
Patches ==
    { [url |-> None, title |-> None, tags |-> None, notes |-> None],
      [url |-> None, title |-> Some(<<"b">>), tags |-> Some(<<>>), notes |-> None] }

\* Batches for create_links_bulk.
Batches == { <<d1, d2>> : d1 \in {d \in Drafts : d.title # None}, d2 \in Drafts }

\* (tag, q) pairs for list_links.
Filters ==
    { <<None, None>>, <<Some(<<"x">>), None>>, <<Some(<<>>), None>>,
      <<None, Some(<<"C">>)>>, <<None, Some(<<"a", "_">>)>>,
      <<Some(<<"x">>), Some(<<"C">>)>> }

\* ----------------------------------------------------------- JsonStorage
\* json.dump(..., default=str) on a datetime.
JsonDefault(t) == StrDT(t)

\* Stable sort of `items` by updated_at, reverse=True: Python keeps the
\* original order of items whose keys are equal.
RECURSIVE SortReverse(_)
SortReverse(items) ==
    IF items = <<>> THEN <<>>
    ELSE LET x == items[Len(items)]
             rest == SortReverse(SubSeq(items, 1, Len(items) - 1))
             \* x goes after every item whose key is not smaller than its own
             n == Cardinality({k \in 1..Len(rest) :
                      ~StrLess(rest[k].updated_at, x.updated_at)})
         IN  SubSeq(rest, 1, n) \o <<x>> \o SubSeq(rest, n + 1, Len(rest))

\* Python slice items[lo:hi] for 0 <= lo, 0 <= hi.
Slice(items, lo, hi) == SubSeq(items, lo + 1, Min(hi, Len(items)))

JsonMatches(i, ql) ==
    \/ IsSubstr(ql, Lower(OrEmpty(i.title)))
    \/ IsSubstr(ql, Lower(i.url))
    \/ IsSubstr(ql, Lower(OrEmpty(i.notes)))

JsonFiltered(data, tag, q) ==
    LET HasTag(i) == tag[1] \in Range(i.tags)
        HasQ(i) == JsonMatches(i, Lower(q[1]))
        byTag == IF Truthy(tag) THEN SelectSeq(data, HasTag) ELSE data
    IN  IF Truthy(q) THEN SelectSeq(byTag, HasQ) ELSE byTag

JsonListLinks(data, limit, offset, tag, q) ==
    LET items == SortReverse(JsonFiltered(data, tag, q))
    IN  [page |-> Slice(items, offset, offset + limit), total |-> Len(items)]

\* The three results are the document to write, the value returned and
\* whether _write is called.
JsonCreateLink(data, item, id, now) ==
    LET rec == [id |-> id, url |-> item.url, title |-> item.title,
                tags |-> item.tags, notes |-> item.notes,
                created_at |-> now, updated_at |-> now]
        stored == [rec EXCEPT !.created_at = JsonDefault(now),
                              !.updated_at = JsonDefault(now)]
    IN  [data |-> Append(data, stored), ret |-> rec, wrote |-> TRUE]

\* A variant of JsonCreateLinksBulk: uuid4 called once, before the loop.
JsonCreateLinksBulkOneId(data, items, firstId, now) ==
    LET rec(k) == [id |-> firstId, url |-> items[k].url,
                   title |-> items[k].title, tags |-> items[k].tags,
                   notes |-> items[k].notes,
                   created_at |-> now, updated_at |-> now]
        stored(k) == [rec(k) EXCEPT !.created_at = JsonDefault(now),
                                    !.updated_at = JsonDefault(now)]
    IN  [data |-> data \o [k \in 1..Len(items) |-> stored(k)],
         ret |-> [k \in 1..Len(items) |-> rec(k)], wrote |-> TRUE]

JsonCreateLinksBulk(data, items, firstId, now) ==
    LET rec(k) == [id |-> firstId + k - 1, url |-> items[k].url,
                   title |-> items[k].title, tags |-> items[k].tags,
                   notes |-> items[k].notes,
                   created_at |-> now, updated_at |-> now]
        stored(k) == [rec(k) EXCEPT !.created_at = JsonDefault(now),
                                    !.updated_at = JsonDefault(now)]
    IN  [data |-> data \o [k \in 1..Len(items) |-> stored(k)],
         ret |-> [k \in 1..Len(items) |-> rec(k)], wrote |-> TRUE]

JsonGetLink(data, link_id) ==
    LET hits == {k \in 1..Len(data) : data[k].id = link_id}
    IN  IF hits = {} THEN None
        ELSE Some(data[CHOOSE k \in hits : \A j \in hits : k <= j])

\* A variant of JsonPatched: i.update(patch), the None values included.
JsonPatchedWithNone(i, patch) ==
    [i EXCEPT !.url = IF patch.url # None THEN patch.url[1] ELSE @,
              !.title = patch.title,
              !.tags = IF patch.tags # None THEN patch.tags[1] ELSE @,
              !.notes = patch.notes]

\* dict.update with the patch's non-None values.
JsonPatched(i, patch) ==
    [i EXCEPT !.url = IF patch.url # None THEN patch.url[1] ELSE @,
              !.title = IF patch.title # None THEN patch.title ELSE @,
              !.tags = IF patch.tags # None THEN patch.tags[1] ELSE @,
              !.notes = IF patch.notes # None THEN patch.notes ELSE @]

JsonUpdateLink(data, link_id, patch, now) ==
    LET hits == {k \in 1..Len(data) : data[k].id = link_id}
        k0 == CHOOSE k \in hits : \A j \in hits : k <= j
        i == JsonPatched(data[k0], patch)
    IN  IF hits = {} THEN [data |-> data, ret |-> None, wrote |-> FALSE]
        ELSE [data |-> [data EXCEPT ![k0] =
                           [i EXCEPT !.updated_at = JsonDefault(now)]],
              ret |-> Some([i EXCEPT !.updated_at = now]),
              wrote |-> TRUE]

\* A variant of JsonDeleteLink: returns whether any record was there before.
JsonDeleteLinkAnyBefore(data, link_id) ==
    LET Other(i) == i.id # link_id
        kept == SelectSeq(data, Other)
    IN  [data |-> kept, ret |-> Len(data) > 0, wrote |-> TRUE]

JsonDeleteLink(data, link_id) ==
    LET Other(i) == i.id # link_id
        kept == SelectSeq(data, Other)
    IN  [data |-> kept, ret |-> Len(kept) < Len(data), wrote |-> TRUE]

JsonExportAll(data) == data

\* ------------------------------------------------------------- PgStorage
\* _connect(**kw): the call psycopg.connect(..., autocommit=True, ..., **kw)
\* raises TypeError when kw repeats a keyword it already passes.
ConnectKeywords == {"row_factory", "autocommit", "connect_timeout"}

Connect(kw) == IF kw \cap ConnectKeywords # {} THEN "TypeError" ELSE "ok"

\* An insert or update the server rejects: a text value holding 0x00.
PgTextOk(o) == o = None \/ Nul \notin Range(o[1])

PgRowOk(row) ==
    /\ PgTextOk(Some(row.url)) /\ PgTextOk(row.title) /\ PgTextOk(row.notes)
    /\ \A t \in Range(row.tags) : PgTextOk(Some(t))

\* All the orders `order by updated_at desc` may return the rows in: SQL
\* leaves the order of rows with equal keys open, per statement.
RECURSIVE Orders(_)
Orders(rows) ==
    IF rows = {} THEN {<<>>}
    ELSE UNION { { <<r>> \o rest : rest \in Orders(rows \ {r}) } :
                 r \in {x \in rows : \A y \in rows : y.updated_at <= x.updated_at} }

PgWhere(table, tag, q) ==
    LET like == <<"%">> \o q[1] \o <<"%">>
    IN  { r \in table :
            /\ Truthy(tag) => tag[1] \in Range(r.tags)
            /\ Truthy(q) => \/ ILike(OrEmpty(r.title), like)
                            \/ ILike(r.url, like)
                            \/ ILike(OrEmpty(r.notes), like) }

\* The results list_links may return: the count, and one page per order.
PgListLinks(table, limit, offset, tag, q) ==
    IF Connect({}) # "ok" THEN {[exc |-> Connect({}), ret |-> None]}
    ELSE { [exc |-> "", ret |-> [page |-> SubSeq(o, offset + 1, Min(offset + limit, Len(o))),
                                 total |-> Cardinality(PgWhere(table, tag, q))]] :
           o \in Orders(PgWhere(table, tag, q)) }

\* A variant of PgRow: the insert leaves the title column out.
PgRowNoTitle(item, id, now) ==
    [id |-> id, url |-> item.url, title |-> None,
     tags |-> item.tags, notes |-> item.notes,
     created_at |-> now, updated_at |-> now]

PgRow(item, id, now) ==
    [id |-> id, url |-> item.url, title |-> item.title,
     tags |-> item.tags, notes |-> item.notes,
     created_at |-> now, updated_at |-> now]

PgCreateLink(table, item, id, now) ==
    IF Connect({}) # "ok" THEN [table |-> table, exc |-> Connect({}), ret |-> None]
    ELSE IF ~PgRowOk(PgRow(item, id, now))
    THEN [table |-> table, exc |-> "DataError", ret |-> None]
    ELSE [table |-> table \cup {PgRow(item, id, now)}, exc |-> "",
          ret |-> Some(PgRow(item, id, now))]

\* One transaction: commit after the last insert, rollback on the first
\* exception.
PgCreateLinksBulk(table, items, firstId, now) ==
    LET row(k) == PgRow(items[k], firstId + k - 1, now)
    IN  IF Connect({"autocommit"}) # "ok"
        THEN [table |-> table, exc |-> Connect({"autocommit"}), ret |-> <<>>]
        ELSE IF \E k \in 1..Len(items) : ~PgRowOk(row(k))
        THEN [table |-> table, exc |-> "DataError", ret |-> <<>>]
        ELSE [table |-> table \cup {row(k) : k \in 1..Len(items)}, exc |-> "",
              ret |-> [k \in 1..Len(items) |-> row(k)]]

PgGetLink(table, link_id) ==
    IF Connect({}) # "ok" THEN [exc |-> Connect({}), ret |-> None]
    ELSE IF \E r \in table : r.id = link_id
    THEN [exc |-> "", ret |-> Some(CHOOSE r \in table : r.id = link_id)]
    ELSE [exc |-> "", ret |-> None]

\* The SET clause: the non-None fields of the patch, then updated_at.
PgSet(r, patch, now) ==
    [r EXCEPT !.url = IF patch.url # None THEN patch.url[1] ELSE @,
              !.title = IF patch.title # None THEN patch.title ELSE @,
              !.tags = IF patch.tags # None THEN patch.tags[1] ELSE @,
              !.notes = IF patch.notes # None THEN patch.notes ELSE @,
              !.updated_at = now]

PgNoFields(patch) ==
    patch.url = None /\ patch.title = None /\ patch.tags = None /\ patch.notes = None

PgUpdateLink(table, link_id, patch, now) ==
    LET hit == {r \in table : r.id = link_id}
        new == {PgSet(r, patch, now) : r \in hit}
        got == PgGetLink(table, link_id)
    IN  IF PgNoFields(patch)
        THEN [table |-> table, exc |-> got.exc, ret |-> got.ret]
        ELSE IF Connect({}) # "ok"
        THEN [table |-> table, exc |-> Connect({}), ret |-> None]
        ELSE IF \E r \in new : ~PgRowOk(r)
        THEN [table |-> table, exc |-> "DataError", ret |-> None]
        ELSE [table |-> (table \ hit) \cup new, exc |-> "",
              ret |-> IF new = {} THEN None ELSE Some(CHOOSE r \in new : TRUE)]

PgDeleteLink(table, link_id) ==
    IF Connect({}) # "ok" THEN [table |-> table, exc |-> Connect({}), ret |-> FALSE]
    ELSE [table |-> {r \in table : r.id # link_id}, exc |-> "",
          ret |-> Cardinality({r \in table : r.id = link_id}) > 0]

\* The results export_all may return, one per order.
PgExportAll(table) ==
    IF Connect({}) # "ok" THEN {[exc |-> Connect({}), ret |-> <<>>]}
    ELSE { [exc |-> "", ret |-> o] : o \in Orders(table) }

\* ----------------------------------------------------------------- state
VARIABLES
    backend,   \* "json" or "pg": what get_storage() returned
    file,      \* JsonStorage: the "links" list of the document at self.path
    table,     \* PgStorage: the rows of table links
    clock,     \* the wall clock, what now_utc() reads
    uuids,     \* how many ids uuid4 / gen_random_uuid have produced
    last,      \* the last call: its name, arguments, exception and result
    live,      \* history: the ids a create call returned and no delete removed
    fresh,     \* history: the records create calls returned, until an
               \*          update_link or delete_link is called with their id
    deleted,   \* history: the ids delete_link returned True for
    scan,      \* history: the list_links calls of the pagination under way
    threads    \* JsonStorage: the calls under way in the request threads

vars == <<backend, file, table, clock, uuids, last, live, fresh, deleted, scan,
          threads>>

\* FastAPI runs the `def` handlers of main.py in a thread pool.
Threads == {"t1", "t2"}

Idle == [pc |-> "idle", op |-> "", id |-> 0, arg |-> None, data |-> <<>>,
         ret |-> None, raced |-> FALSE]

Call(op, id, arg, exc, ret) ==
    [op |-> op, id |-> id, arg |-> arg, exc |-> exc, ret |-> ret, now |-> clock]

\* get_storage(): PgStorage when DATABASE_URL is set, else JsonStorage, whose
\* constructor writes {"links": []}; create table if not exists leaves an
\* empty table.
Init ==
    /\ backend \in {"json", "pg"}
    /\ file = <<>>
    /\ table = {}
    /\ clock = 0
    /\ uuids = 0
    /\ last = Call("init", 0, None, "", None)
    /\ live = {}
    /\ fresh = {}
    /\ deleted = {}
    /\ scan = <<>>
    /\ threads = [t \in Threads |-> Idle]

\* Time passes between two calls.
Tick ==
    /\ clock < MaxClock
    /\ clock' = clock + 1
    /\ last' = [Call("tick", 0, None, "", None) EXCEPT !.now = clock + 1]
    /\ scan' = <<>>
    /\ UNCHANGED <<threads, backend, file, table, uuids, live, fresh, deleted>>

Returned(recs, items) ==
    { [id |-> recs[k].id, item |-> items[k], now |-> recs[k].created_at] :
      k \in 1..Len(recs) }

Untouched(link_id) == {c \in fresh : c.id # link_id}

\* A list_links call continues the pagination under way when it repeats its
\* limit and filters at the next offset; a call at offset 0 starts one.
Scanned(call) ==
    IF /\ scan # <<>>
       /\ call.arg.limit = scan[1].arg.limit
       /\ call.arg.tag = scan[1].arg.tag
       /\ call.arg.q = scan[1].arg.q
       /\ call.arg.offset = Len(scan) * call.arg.limit
    THEN Append(scan, call)
    ELSE IF call.arg.offset = 0 THEN <<call>> ELSE <<>>

JsonStorage_list_links(limit, offset, tag, q) ==
    LET call == Call("list_links", 0,
                     [limit |-> limit, offset |-> offset, tag |-> tag, q |-> q],
                     "", JsonListLinks(file, limit, offset, tag, q))
    IN  /\ backend = "json"
        /\ last' = call
        /\ scan' = Scanned(call)
        /\ UNCHANGED <<threads, backend, file, table, clock, uuids, live, fresh, deleted>>

JsonStorage_create_link(item) ==
    LET r == JsonCreateLink(file, item, uuids + 1, clock)
    IN  /\ backend = "json"
        /\ uuids < MaxUuid
        /\ file' = r.data
        /\ uuids' = uuids + 1
        /\ last' = Call("create_link", 0, item, "", Some(r.ret))
        /\ live' = live \cup {r.ret.id}
        /\ fresh' = fresh \cup Returned(<<r.ret>>, <<item>>)
        /\ scan' = <<>>
        /\ UNCHANGED <<threads, backend, table, clock, deleted>>

JsonStorage_create_links_bulk(items) ==
    LET r == JsonCreateLinksBulk(file, items, uuids + 1, clock)
    IN  /\ backend = "json"
        /\ uuids + Len(items) <= MaxUuid
        /\ file' = r.data
        /\ uuids' = uuids + Len(items)
        /\ last' = Call("create_links_bulk", 0, items, "", r.ret)
        /\ live' = live \cup {r.ret[k].id : k \in 1..Len(r.ret)}
        /\ fresh' = fresh \cup Returned(r.ret, items)
        /\ scan' = <<>>
        /\ UNCHANGED <<threads, backend, table, clock, deleted>>

JsonStorage_get_link(link_id) ==
    /\ backend = "json"
    /\ last' = Call("get_link", link_id, None, "", JsonGetLink(file, link_id))
    /\ scan' = <<>>
    /\ UNCHANGED <<threads, backend, file, table, clock, uuids, live, fresh, deleted>>

JsonStorage_update_link(link_id, patch) ==
    LET r == JsonUpdateLink(file, link_id, patch, clock)
    IN  /\ backend = "json"
        /\ file' = IF r.wrote THEN r.data ELSE file
        /\ last' = Call("update_link", link_id, patch, "", r.ret)
        /\ fresh' = Untouched(link_id)
        /\ scan' = <<>>
        /\ UNCHANGED <<threads, backend, table, clock, uuids, live, deleted>>

JsonStorage_delete_link(link_id) ==
    LET r == JsonDeleteLink(file, link_id)
    IN  /\ backend = "json"
        /\ file' = r.data
        /\ last' = Call("delete_link", link_id, None, "", r.ret)
        /\ live' = IF r.ret THEN live \ {link_id} ELSE live
        /\ fresh' = Untouched(link_id)
        /\ deleted' = IF r.ret THEN deleted \cup {link_id} ELSE deleted
        /\ scan' = <<>>
        /\ UNCHANGED <<threads, backend, table, clock, uuids>>

JsonStorage_export_all ==
    /\ backend = "json"
    /\ last' = Call("export_all", 0, None, "", JsonExportAll(file))
    /\ scan' = <<>>
    /\ UNCHANGED <<threads, backend, file, table, clock, uuids, live, fresh, deleted>>

PgStorage_list_links(limit, offset, tag, q) ==
    /\ backend = "pg"
    /\ \E r \in PgListLinks(table, limit, offset, tag, q) :
          LET call == Call("list_links", 0,
                           [limit |-> limit, offset |-> offset, tag |-> tag, q |-> q],
                           r.exc, r.ret)
          IN  /\ last' = call
              /\ scan' = Scanned(call)
    /\ UNCHANGED <<threads, backend, file, table, clock, uuids, live, fresh, deleted>>

PgStorage_create_link(item) ==
    LET r == PgCreateLink(table, item, uuids + 1, clock)
    IN  /\ backend = "pg"
        /\ uuids < MaxUuid
        /\ table' = r.table
        /\ uuids' = IF r.exc = "" THEN uuids + 1 ELSE uuids
        /\ last' = Call("create_link", 0, item, r.exc, r.ret)
        /\ live' = IF r.exc = "" THEN live \cup {r.ret[1].id} ELSE live
        /\ fresh' = IF r.exc = "" THEN fresh \cup Returned(r.ret, <<item>>) ELSE fresh
        /\ scan' = <<>>
        /\ UNCHANGED <<threads, backend, file, clock, deleted>>

PgStorage_create_links_bulk(items) ==
    LET r == PgCreateLinksBulk(table, items, uuids + 1, clock)
    IN  /\ backend = "pg"
        /\ uuids + Len(items) <= MaxUuid
        /\ table' = r.table
        /\ uuids' = uuids + Len(r.ret)
        /\ last' = Call("create_links_bulk", 0, items, r.exc, r.ret)
        /\ live' = live \cup {r.ret[k].id : k \in 1..Len(r.ret)}
        /\ fresh' = fresh \cup Returned(r.ret, items)
        /\ scan' = <<>>
        /\ UNCHANGED <<threads, backend, file, clock, deleted>>

PgStorage_get_link(link_id) ==
    LET r == PgGetLink(table, link_id)
    IN  /\ backend = "pg"
        /\ last' = Call("get_link", link_id, None, r.exc, r.ret)
        /\ scan' = <<>>
        /\ UNCHANGED <<threads, backend, file, table, clock, uuids, live, fresh, deleted>>

PgStorage_update_link(link_id, patch) ==
    LET r == PgUpdateLink(table, link_id, patch, clock)
    IN  /\ backend = "pg"
        /\ table' = r.table
        /\ last' = Call("update_link", link_id, patch, r.exc, r.ret)
        /\ fresh' = Untouched(link_id)
        /\ scan' = <<>>
        /\ UNCHANGED <<threads, backend, file, clock, uuids, live, deleted>>

PgStorage_delete_link(link_id) ==
    LET r == PgDeleteLink(table, link_id)
    IN  /\ backend = "pg"
        /\ table' = r.table
        /\ last' = Call("delete_link", link_id, None, r.exc, r.ret)
        /\ live' = IF r.ret THEN live \ {link_id} ELSE live
        /\ fresh' = Untouched(link_id)
        /\ deleted' = IF r.ret THEN deleted \cup {link_id} ELSE deleted
        /\ scan' = <<>>
        /\ UNCHANGED <<threads, backend, file, clock, uuids>>

PgStorage_export_all ==
    /\ backend = "pg"
    /\ \E r \in PgExportAll(table) : last' = Call("export_all", 0, None, r.exc, r.ret)
    /\ scan' = <<>>
    /\ UNCHANGED <<threads, backend, file, table, clock, uuids, live, fresh, deleted>>

\* The calls that write, and the reads of one record and of all of them.
Next ==
    \/ Tick
    \/ \E item \in Drafts : JsonStorage_create_link(item)
    \/ \E items \in Batches : JsonStorage_create_links_bulk(items)
    \/ \E link_id \in Ids : JsonStorage_get_link(link_id)
    \/ \E link_id \in Ids, patch \in Patches : JsonStorage_update_link(link_id, patch)
    \/ \E link_id \in Ids : JsonStorage_delete_link(link_id)
    \/ JsonStorage_export_all
    \/ \E item \in Drafts : PgStorage_create_link(item)
    \/ \E items \in Batches : PgStorage_create_links_bulk(items)
    \/ \E link_id \in Ids : PgStorage_get_link(link_id)
    \/ \E link_id \in Ids, patch \in Patches : PgStorage_update_link(link_id, patch)
    \/ \E link_id \in Ids : PgStorage_delete_link(link_id)
    \/ PgStorage_export_all

Spec == Init /\ [][Next]_vars

\* The calls that write, and list_links.
NextList ==
    \/ Tick
    \/ \E item \in Drafts : JsonStorage_create_link(item)
    \/ \E items \in Batches : JsonStorage_create_links_bulk(items)
    \/ \E link_id \in Ids, patch \in Patches : JsonStorage_update_link(link_id, patch)
    \/ \E link_id \in Ids : JsonStorage_delete_link(link_id)
    \/ \E f \in Filters, limit \in 1..MaxLimit, offset \in 0..MaxOffset :
          JsonStorage_list_links(limit, offset, f[1], f[2])
    \/ \E item \in Drafts : PgStorage_create_link(item)
    \/ \E items \in Batches : PgStorage_create_links_bulk(items)
    \/ \E link_id \in Ids, patch \in Patches : PgStorage_update_link(link_id, patch)
    \/ \E link_id \in Ids : PgStorage_delete_link(link_id)
    \/ \E f \in Filters, limit \in 1..MaxLimit, offset \in 0..MaxOffset :
          PgStorage_list_links(limit, offset, f[1], f[2])

SpecList == Init /\ [][NextList]_vars

\* ------------------------------------------- JsonStorage, two threads
\* A write call of JsonStorage is two steps, none of them under a lock:
\* data = self._read(), then the change of data in memory and self._write(data)
\* (update_link returns without writing when it finds no record).
WriteOps == {"create_link", "create_links_bulk", "update_link", "delete_link"}

Args(op) ==
    CASE op = "create_link" -> {[id |-> 0, arg |-> d] : d \in Drafts}
      [] op = "create_links_bulk" -> {[id |-> 0, arg |-> b] : b \in Batches}
      [] op = "update_link" -> {[id |-> i, arg |-> p] : i \in Ids, p \in Patches}
      [] op = "delete_link" -> {[id |-> i, arg |-> None] : i \in Ids}

Pending(t) == threads[t].pc = "read"

\* Thread t enters a call and reads the document.
Thread_read(t, op, a) ==
    /\ backend = "json"
    /\ ~Pending(t)
    /\ threads' =
         [u \in Threads |->
            IF u = t
            THEN [pc |-> "read", op |-> op, id |-> a.id, arg |-> a.arg,
                  data |-> file, ret |-> None,
                  raced |-> \E v \in Threads \ {t} : Pending(v)]
            ELSE IF Pending(u) THEN [threads[u] EXCEPT !.raced = TRUE]
            ELSE threads[u]]
    /\ UNCHANGED <<backend, file, table, clock, uuids, last, live, fresh, deleted, scan>>

Applied(c, firstId, now) ==
    CASE c.op = "create_link" ->
            [JsonCreateLink(c.data, c.arg, firstId, now) EXCEPT !.ret = Some(@)]
      [] c.op = "create_links_bulk" -> JsonCreateLinksBulk(c.data, c.arg, firstId, now)
      [] c.op = "update_link" -> JsonUpdateLink(c.data, c.id, c.arg, now)
      [] c.op = "delete_link" -> JsonDeleteLink(c.data, c.id)

Taken(c) ==
    CASE c.op = "create_link" -> 1
      [] c.op = "create_links_bulk" -> Len(c.arg)
      [] OTHER -> 0

\* Thread t changes its copy of the document, writes it and returns.
Thread_write(t) ==
    LET c == threads[t]
        r == Applied(c, uuids + 1, clock)
    IN  /\ Pending(t)
        /\ uuids + Taken(c) <= MaxUuid
        /\ file' = IF r.wrote THEN r.data ELSE file
        /\ uuids' = uuids + Taken(c)
        /\ threads' = [threads EXCEPT ![t] = [c EXCEPT !.pc = "returned", !.ret = r.ret,
                                                      !.data = <<>>]]
        /\ UNCHANGED <<backend, table, clock, last, live, fresh, deleted, scan>>

NextFile ==
    \/ \E t \in Threads, op \in WriteOps : \E a \in Args(op) : Thread_read(t, op, a)
    \/ \E t \in Threads : Thread_write(t)

SpecFile == Init /\ [][NextFile]_vars

\* ---------------------------------------------------------------- claims
\* The stored records, their ids, and a datetime as the backend stores it.
Stored == IF backend = "json" THEN Range(file) ELSE table

StoredIds == {r.id : r \in Stored}

Stamp(t) == IF backend = "json" THEN JsonDefault(t) ELSE t

\* x was touched strictly later than y, by the stored updated_at values.
Newer(x, y) ==
    IF backend = "json" THEN StrLess(y.updated_at, x.updated_at)
    ELSE y.updated_at < x.updated_at

SeqIds(recs) == [k \in 1..Len(recs) |-> recs[k].id]

NoRepeat(seq) == \A j, k \in 1..Len(seq) : j # k => seq[j] # seq[k]

SortedDesc(recs) == \A j, k \in 1..Len(recs) : j < k => ~Newer(recs[k], recs[j])

\* C1: update_link on an existing id leaves the stored record's updated_at at
\* the clock value of the call, whatever the patch holds (also nothing).
C1_UpdateRefreshesUpdatedAt ==
    (last.op = "update_link" /\ last.exc = "" /\ last.ret # None) =>
        \A r \in Stored : r.id = last.id => r.updated_at = Stamp(last.now)

\* C2: export_all returns the records created and not deleted, each once,
\* a record touched later never after one touched earlier.
C2_ExportAllSortedDesc ==
    (last.op = "export_all" /\ last.exc = "") =>
        /\ Range(SeqIds(last.ret)) = live
        /\ NoRepeat(SeqIds(last.ret))
        /\ Range(last.ret) = Stored
        /\ SortedDesc(last.ret)

FileIds == {file[k].id : k \in 1..Len(file)}

\* The file shows what the returned call c did; o is the other thread's call,
\* which may itself have been told to undo it.
Reflected(c, o) ==
    CASE c.op = "create_link" ->
            c.ret[1].id \in FileIds \/ (o.op = "delete_link" /\ o.id = c.ret[1].id)
      [] c.op = "create_links_bulk" ->
            \A k \in 1..Len(c.ret) :
                c.ret[k].id \in FileIds \/ (o.op = "delete_link" /\ o.id = c.ret[k].id)
      [] c.op = "delete_link" -> c.id \notin FileIds
      [] c.op = "update_link" ->
            \/ c.ret = None
            \/ o.op \in {"update_link", "delete_link"} /\ o.id = c.id
            \/ \E k \in 1..Len(file) :
                  /\ file[k].id = c.id
                  /\ c.arg.url # None => file[k].url = c.arg.url[1]
                  /\ c.arg.title # None => file[k].title = c.arg.title
                  /\ c.arg.tags # None => file[k].tags = c.arg.tags[1]
                  /\ c.arg.notes # None => file[k].notes = c.arg.notes

\* C3: when two write calls of JsonStorage overlap and both have returned,
\* the file shows what each of them did (no lost update).
C3_NoLostUpdate ==
    (\A t \in Threads : threads[t].pc = "returned" /\ threads[t].raced) =>
        \A t, u \in Threads : t # u => Reflected(threads[t], threads[u])

\* The stored record with this id.
Rec(recs, id) == CHOOSE r \in recs : r.id = id

\* C4: update_link on an existing id sets exactly the url, title, tags and
\* notes the patch gives a value for, keeps the others, the id and created_at,
\* and changes no other record.
C4_UpdateIsPartial ==
    [][(last'.op = "update_link" /\ last'.exc = "" /\ last'.ret # None) =>
         LET id == last'.id
             patch == last'.arg
             old == Rec(Stored, id)
             new == Rec(Stored', id)
         IN  /\ id \in StoredIds /\ id \in StoredIds'
             /\ new.url = IF patch.url # None THEN patch.url[1] ELSE old.url
             /\ new.title = IF patch.title # None THEN patch.title ELSE old.title
             /\ new.tags = IF patch.tags # None THEN patch.tags[1] ELSE old.tags
             /\ new.notes = IF patch.notes # None THEN patch.notes ELSE old.notes
             /\ new.created_at = old.created_at
             /\ Stored' \ {new} = Stored \ {old}
             /\ Len(file') = Len(file)
             /\ \A k \in 1..Len(file) : file[k].id = file'[k].id
    ]_vars

C4_Witness ==
    /\ last.op = "update_link" /\ last.ret # None
    /\ last.arg.title # None /\ last.arg.url = None
    /\ Rec(Stored, last.id).title = last.arg.title
    /\ Rec(Stored, last.id).url = <<"a", "b">>

\* C5: delete_link returns True exactly when a record with the id existed, and
\* removes it and nothing else; once it has returned True for an id, get_link
\* and update_link return None for it and delete_link returns False.
C5_DeleteThenNotFound ==
    [][/\ (last'.op = "delete_link" /\ last'.exc = "") =>
            /\ last'.ret = (last'.id \in StoredIds)
            /\ Stored' = {r \in Stored : r.id # last'.id}
            /\ last'.id \in deleted => last'.ret = FALSE
       /\ (last'.op \in {"get_link", "update_link"} /\ last'.id \in deleted) =>
            (last'.exc = "" /\ last'.ret = None)
    ]_vars

C5_Witness ==
    /\ last.op = "get_link" /\ last.id \in deleted /\ last.ret = None
    /\ Stored # {}

\* C9: no two stored records have the same id, the ids stored are the ids the
\* create calls returned (less the deleted ones), and get_link finds each
\* under that id.
C9_IdsUniqueAndStable ==
    /\ NoRepeat(SeqIds(file))
    /\ \A r1, r2 \in table : r1.id = r2.id => r1 = r2
    /\ StoredIds = live
    /\ (last.op = "get_link" /\ last.id \in live) =>
          (last.ret # None /\ last.ret[1].id = last.id)

C9_Witness ==
    /\ last.op = "get_link" /\ last.id \in live /\ last.ret # None
    /\ Cardinality(live) >= 2 /\ deleted = {}
    /\ last.id \notin {c.id : c \in fresh}

C6_BulkAllOrNothing ==
    [][(backend = "pg" /\ last'.op = "create_links_bulk") =>
         IF \A k \in 1..Len(last'.arg) : PgRowOk(PgRow(last'.arg[k], 0, 0))
         THEN /\ last'.exc = ""
              /\ Len(last'.ret) = Len(last'.arg)
              /\ \A k \in 1..Len(last'.ret) : last'.ret[k] \in table'
              /\ table \subseteq table'
         ELSE last'.exc # "" /\ table' = table
    ]_vars

\* The records the backend selects for a pair of filters.
Selected(tag, q) ==
    IF backend = "json" THEN Range(JsonFiltered(file, tag, q))
    ELSE PgWhere(table, tag, q)

\* The pages of the pagination under way, one after the other.
RECURSIVE Pages(_)
Pages(n) == IF n = 0 THEN <<>> ELSE Pages(n - 1) \o scan[n].ret.page

\* C7: with no write in between, the list_links calls at offsets 0, L, 2L, ...
\* with one limit L and one pair of filters return the same total, the number
\* of records selected, and pages that follow one another through the
\* selected records sorted by updated_at descending: no record twice, none
\* skipped, an empty page from the total on.
C7_PagesPartition ==
    \A n \in 1..Len(scan) :
        LET a == scan[n].arg
            sel == Selected(a.tag, a.q)
            all == Pages(n)
        IN  /\ scan[n].exc = ""
            /\ scan[n].ret.total = Cardinality(sel)
            /\ Len(all) = Min(n * a.limit, Cardinality(sel))
            /\ Range(all) \subseteq sel
            /\ NoRepeat(SeqIds(all))
            /\ SortedDesc(all)

\* The claim's reading of the filters; a filter that is None or "" is not
\* supplied (`if tag:`, `if q:`).
Wanted(r, tag, q) ==
    /\ Truthy(tag) => tag[1] \in Range(r.tags)
    /\ Truthy(q) => \/ IsSubstr(Lower(q[1]), Lower(OrEmpty(r.title)))
                    \/ IsSubstr(Lower(q[1]), Lower(r.url))
                    \/ IsSubstr(Lower(q[1]), Lower(OrEmpty(r.notes)))

\* C8: list_links selects exactly the records that have the tag as one of
\* their tags (when a tag is given) and hold q, compared case-insensitively,
\* in title, url or notes (when q is given).
C8_FiltersSelectExactly ==
    (last.op = "list_links" /\ last.exc = "") =>
        LET want == {r \in Stored : Wanted(r, last.arg.tag, last.arg.q)}
        IN  /\ last.ret.total = Cardinality(want)
            /\ Range(last.ret.page) \subseteq want

\* The same properties of one backend alone.
JsonPagesPartition == backend = "json" => C7_PagesPartition

JsonFiltersSelectExactly == backend = "json" => C8_FiltersSelectExactly

PgExportAllSortedDesc == backend = "pg" => C2_ExportAllSortedDesc

JsonUpdateRefreshesUpdatedAt == backend = "json" => C1_UpdateRefreshesUpdatedAt

====
